---- MODULE Spec2Model ----
(***************************************************************************)
(* Model of the handbook-acknowledgment bot (src/main.py).                 *)
(*                                                                         *)
(* The state is the PostgreSQL store (the employees and acknowledgments    *)
(* tables), the replies the bot has sent, and one record per invocation of *)
(* handle_message holding its local variables and its position in the      *)
(* code.  The store is a server shared by every invocation, so each store  *)
(* call (one SQL statement, with the commit that follows it in the same    *)
(* helper) is one atomic step; invocations interleave between store calls  *)
(* and at every awaited reply.  Every store call and every reply may       *)
(* raise.                                                                  *)
(*                                                                         *)
(* Strings that the code compares or transforms (names) are sequences of   *)
(* one-character strings.  A message text is represented by what           *)
(* ACK_PATTERN.search makes of it.  updated_at counts the updates of the   *)
(* row, NOW() being later at each one.  Columns of acknowledgments that no *)
(* statement of the program reads back (the surrogate id, acknowledged_at, *)
(* the message date and the raw JSON payload) are not modelled.  A reply   *)
(* that raises has not been delivered.                                     *)
(*                                                                         *)
(* The schema is not part of main.py: both a schema with and one without   *)
(* the uniqueness constraint on (employee_id, handbook_version) are        *)
(* initial states.                                                         *)
(***************************************************************************)
EXTENDS Integers, Sequences, FiniteSets, TLC

(***************************************************************************)
(* Bounds of the model.                                                    *)
(***************************************************************************)
\* number of messages delivered to the bot in one behaviour
MaxMsgs == 2
\* number of employee rows find_similar_names is applied to on its own
MaxRoster == 4

(***************************************************************************)
(* Input domains.                                                          *)
(***************************************************************************)
None == "None"

\* values of the ALLOWED_CHAT_ID setting: 0 is "absent or zero"
AllowedChatConfigs == {0, 1}

\* senders: user.id and user.username (None when the account has none)
Ann == [id |-> 1, username |-> "ann"]
Bob == [id |-> 2, username |-> None]

\* the deployed schema: with or without UNIQUE (employee_id, handbook_version)
\* on acknowledgments
SchemaConfigs == BOOLEAN

\* the pre-provisioned roster
NameAlPo == <<"A", "l", " ", "P", "o">>
NameBoYu == <<"B", "o", " ", "Y", "u">>
Roster == <<NameAlPo, NameBoYu>>
EmpIds == 1..Len(Roster)
\* the lifecycle status pre-provisioning gives an employee row
EmployeeStatus == "active"

\* names claimed in messages: a case variant of employee 1, a typo of
\* employee 1, and a name unlike any on the roster
ClaimAlPo == <<"a", "l", " ", "p", "o">>
ClaimTypo == <<"A", "l", " ", "P", "a">>
ClaimZed == <<"Z", "e", "d">>

\* employee names find_similar_names is applied to on its own: towards the
\* claim "al po" they score 1.15, 0.95, 0.889 (no bonus), 0.721 (0.6 only
\* with the bonus) and 0.2
NameAl == <<"A", "l">>
NameAlpo == <<"A", "l", "p", "o">>
SimilarPool == {NameAlPo, ClaimTypo, NameAlpo, NameAl, NameBoYu}
SimilarClaims == {ClaimAlPo, ClaimTypo}

\* message.text, represented by what ACK_PATTERN.search finds in it
NoText == [kind |-> "none", name |-> <<>>, version |-> None]
Chatter == [kind |-> "chatter", name |-> <<>>, version |-> None]
AckText(name, version) == [kind |-> "ack", name |-> name, version |-> version]

Message(chat_id, from_user, text) ==
    [chat_id |-> chat_id, from_user |-> from_user, text |-> text]

\* the messages the transport may deliver, each any number of times
Inbox ==
    { Message(1, Ann, NoText),
      Message(1, Bob, Chatter),
      Message(1, Ann, AckText(ClaimAlPo, "v1")),
      Message(1, Bob, AckText(ClaimAlPo, "v1")),
      Message(1, Ann, AckText(ClaimAlPo, "v2")),
      Message(1, Ann, AckText(NameBoYu, "v1")),
      Message(1, Bob, AckText(ClaimTypo, "v1")),
      Message(1, Bob, AckText(ClaimZed, "v1")),
      Message(2, Ann, AckText(ClaimAlPo, "v1")) }

(***************************************************************************)
(* Pure helpers.                                                           *)
(***************************************************************************)
\* str.lower on one character
LowerChar(c) ==
    CASE c = "A" -> "a"
      [] c = "B" -> "b"
      [] c = "P" -> "p"
      [] c = "Y" -> "y"
      [] c = "Z" -> "z"
      [] OTHER -> c

\* str.lower / SQL LOWER
Lower(s) == [i \in 1..Len(s) |-> LowerChar(s[i])]

\* ACK_PATTERN.search(text), followed by the two group(...).strip() calls
NoMatch == [matched |-> FALSE, full_name |-> <<>>, version |-> None]
\* a pattern so loose that any text matches
AckPatternSearchLoose(text) ==
    IF text.kind /= "none"
    THEN [matched |-> TRUE, full_name |-> text.name,
          version |-> IF text.kind = "ack" THEN text.version ELSE "v1"]
    ELSE NoMatch

AckPatternSearch(text) ==
    IF text.kind = "ack"
    THEN [matched |-> TRUE, full_name |-> text.name, version |-> text.version]
    ELSE NoMatch

\* user.username or ""
UsernameOrEmpty(user) == IF user.username = None THEN "" ELSE user.username

(***************************************************************************)
(* difflib.SequenceMatcher(None, a, b).ratio(), as find_similar_names uses *)
(* it.  Ranges are half open: alo..ahi-1 and blo..bhi-1.                   *)
(***************************************************************************)
RECURSIVE RunLength(_, _, _, _, _, _)
\* length of the common run of a and b starting at a[i], b[j]
RunLength(a, b, i, j, ahi, bhi) ==
    IF i < ahi /\ j < bhi /\ a[i] = b[j]
    THEN 1 + RunLength(a, b, i + 1, j + 1, ahi, bhi)
    ELSE 0

\* find_longest_match: the longest block, earliest in a, then earliest in b
FindLongestMatch(a, b, alo, ahi, blo, bhi) ==
    LET starts == (alo..(ahi - 1)) \X (blo..(bhi - 1))
        size(p) == RunLength(a, b, p[1], p[2], ahi, bhi)
        best == CHOOSE p \in starts :
                    \A q \in starts :
                        \/ size(p) > size(q)
                        \/ /\ size(p) = size(q)
                           /\ \/ p[1] < q[1]
                              \/ p[1] = q[1] /\ p[2] <= q[2]
    IN  IF starts = {} THEN <<alo, blo, 0>>
        ELSE <<best[1], best[2], size(best)>>

RECURSIVE MatchingChars(_, _, _, _, _, _)
\* get_matching_blocks: total size of the blocks found by recursing to the
\* left and to the right of the longest match
MatchingChars(a, b, alo, ahi, blo, bhi) ==
    LET m == FindLongestMatch(a, b, alo, ahi, blo, bhi)
    IN  IF m[3] = 0 THEN 0
        ELSE m[3]
             + MatchingChars(a, b, alo, m[1], blo, m[2])
             + MatchingChars(a, b, m[1] + m[3], ahi, m[2] + m[3], bhi)

\* ratio() = 2.0 * M / T as the fraction <<numerator, denominator>>;
\* 1.0 when both sequences are empty
Ratio(a, b) ==
    LET T == Len(a) + Len(b)
    IN  IF T = 0 THEN <<1, 1>>
        ELSE <<2 * MatchingChars(a, b, 1, Len(a) + 1, 1, Len(b) + 1), T>>

\* fractions are compared by cross multiplication
FracGE(x, y) == x[1] * y[2] >= y[1] * x[2]
FracGT(x, y) == x[1] * y[2] > y[1] * x[2]
FracAdd(x, y) == <<x[1] * y[2] + y[1] * x[2], x[2] * y[2]>>

RECURSIVE SplitFrom(_, _, _)
\* str.split(): the whitespace-separated tokens of s from position i on,
\* cur being the token under construction
SplitFrom(s, i, cur) ==
    IF i > Len(s) THEN (IF cur = <<>> THEN <<>> ELSE <<cur>>)
    ELSE IF s[i] = " "
         THEN (IF cur = <<>> THEN <<>> ELSE <<cur>>) \o SplitFrom(s, i + 1, <<>>)
         ELSE SplitFrom(s, i + 1, Append(cur, s[i]))

Split(s) == SplitFrom(s, 1, <<>>)

(***************************************************************************)
(* find_similar_names                                                      *)
(***************************************************************************)
\* the default of the threshold parameter, 0.6
Threshold == <<6, 10>>
\* a token pair counts when its ratio exceeds 0.8
PartThreshold == <<8, 10>>
\* the bonus, 0.15
PartBonus == <<15, 100>>
\* matches[:3]
MaxSuggestions == 3

\* the bonus added for every token pair above 0.8, without the break
PartBonusSummed(input_parts, emp_parts) ==
    <<PartBonus[1] * Cardinality(
          {p \in (1..Len(input_parts)) \X (1..Len(emp_parts)) :
              FracGT(Ratio(input_parts[p[1]], emp_parts[p[2]]), PartThreshold)}),
      PartBonus[2]>>

\* the nested loop over input_parts and emp_parts: the bonus is assigned,
\* never added, so it is 0 or 0.15
PartBonusOf(input_parts, emp_parts) ==
    IF \E i \in 1..Len(input_parts), j \in 1..Len(emp_parts) :
           FracGT(Ratio(input_parts[i], emp_parts[j]), PartThreshold)
    THEN PartBonus
    ELSE <<0, 1>>

\* final_score = ratio + part_bonus
FinalScore(full_name, emp_name) ==
    LET input_lower == Lower(full_name)
        emp_lower == Lower(emp_name)
    IN  FracAdd(Ratio(input_lower, emp_lower),
                PartBonusOf(Split(input_lower), Split(emp_lower)))

\* the names find_similar_names meets: of the rows and of the messages
KnownNames ==
    {Roster[e] : e \in EmpIds} \cup SimilarPool \cup SimilarClaims
        \cup {update.text.name : update \in Inbox}

\* final_score of every pair of names, computed once
FinalScoreOf ==
    [full_name \in KnownNames |->
        [emp_name \in KnownNames |-> FinalScore(full_name, emp_name)]]

RECURSIVE InsertByScore(_, _)
\* x goes behind every element whose score is at least its own
InsertByScore(x, sorted) ==
    IF sorted = <<>> THEN <<x>>
    ELSE IF FracGE(Head(sorted).score, x.score)
         THEN <<Head(sorted)>> \o InsertByScore(x, Tail(sorted))
         ELSE <<x>> \o sorted

RECURSIVE SortByScoreDesc(_)
\* matches.sort(key=score, reverse=True): stable, equal scores keep their order
SortByScoreDesc(matches) ==
    IF matches = <<>> THEN <<>>
    ELSE InsertByScore(matches[Len(matches)],
                       SortByScoreDesc(SubSeq(matches, 1, Len(matches) - 1)))

\* the threshold test the wrong way round: final_score < threshold
FindSimilarNamesBelow(all_employees, full_name, threshold) ==
    LET scored == [i \in 1..Len(all_employees) |->
                      [id |-> all_employees[i].id,
                       full_name |-> all_employees[i].full_name,
                       score |-> FinalScoreOf[full_name][all_employees[i].full_name]]]
        matches == SelectSeq(scored, LAMBDA m : ~FracGE(m.score, threshold))
        ranked == SortByScoreDesc(matches)
    IN  SubSeq(ranked, 1, IF Len(ranked) < MaxSuggestions
                          THEN Len(ranked) ELSE MaxSuggestions)

\* all_employees is the sequence of rows the SELECT returned
FindSimilarNames(all_employees, full_name, threshold) ==
    LET scored == [i \in 1..Len(all_employees) |->
                      [id |-> all_employees[i].id,
                       full_name |-> all_employees[i].full_name,
                       score |-> FinalScoreOf[full_name][all_employees[i].full_name]]]
        matches == SelectSeq(scored, LAMBDA m : FracGE(m.score, threshold))
        ranked == SortByScoreDesc(matches)
    IN  SubSeq(ranked, 1, IF Len(ranked) < MaxSuggestions
                          THEN Len(ranked) ELSE MaxSuggestions)

(***************************************************************************)
(* State.                                                                  *)
(***************************************************************************)
VARIABLES
    ALLOWED_CHAT_ID,    \* the setting read at start-up
    unique_constraint,  \* whether the deployed schema declares
                        \* UNIQUE (employee_id, handbook_version)
    employees,          \* the employees table: id -> row
    acknowledgments,    \* the acknowledgments table, in insertion order
    replies,            \* the replies delivered to the chat
    calls,              \* the invocations of handle_message; calls[i]
                        \* handles the message with message_id i.  Besides
                        \* the locals of the coroutine a call records the
                        \* exception it caught (raised), the tables it has
                        \* committed to (wrote) and how it ended (outcome).
    lookup              \* one application of find_similar_names on its own:
                        \* the rows its SELECT returned, its full_name
                        \* argument and, once it returned, its result

vars == <<ALLOWED_CHAT_ID, unique_constraint, employees, acknowledgments,
          replies, calls, lookup>>

store == <<employees, acknowledgments>>
config == <<ALLOWED_CHAT_ID, unique_constraint>>

NoEmployee == [id |-> 0, full_name |-> <<>>]

\* the truth test on ALLOWED_CHAT_ID left out: zero restricts too
ChatAllowedStrict(chat_id) == chat_id = ALLOWED_CHAT_ID

\* if ALLOWED_CHAT_ID and message.chat_id != ALLOWED_CHAT_ID: return
ChatAllowed(chat_id) == ~(ALLOWED_CHAT_ID /= 0 /\ chat_id /= ALLOWED_CHAT_ID)

\* find_similar_names is not being applied on its own
NoLookup == [pc |-> "idle", all_employees |-> <<>>, full_name |-> <<>>,
             matches |-> <<>>]

Init ==
    /\ ALLOWED_CHAT_ID \in AllowedChatConfigs
    /\ unique_constraint \in SchemaConfigs
    /\ employees = [e \in EmpIds |->
                       [id |-> e,
                        full_name |-> Roster[e],
                        status |-> EmployeeStatus,
                        telegram_user_id |-> None,
                        telegram_username |-> None,
                        updated_at |-> 0]]
    /\ acknowledgments = <<>>
    /\ replies = {}
    /\ calls = <<>>
    /\ lookup = NoLookup

(***************************************************************************)
(* Store statements.                                                       *)
(***************************************************************************)
\* the comparison without LOWER on either side
FindEmployeeByNameCaseSensitive(full_name) ==
    {[id |-> employees[e].id, full_name |-> employees[e].full_name] :
        e \in {x \in EmpIds : employees[x].full_name = full_name}}

\* SELECT ... FROM employees WHERE LOWER(full_name) = LOWER(%s): the rows
\* fetchone() may return
FindEmployeeByName(full_name) ==
    {[id |-> employees[e].id, full_name |-> employees[e].full_name] :
        e \in {x \in EmpIds : Lower(employees[x].full_name) = Lower(full_name)}}

\* the two parameters bound in the wrong order: no row ever matches
CheckExistingAcknowledgmentSwapped(employee_id, version) == FALSE

\* the SELECT without its version condition: any row of the employee matches
CheckExistingAcknowledgmentAnyVersion(employee_id, version) ==
    \E i \in 1..Len(acknowledgments) :
        acknowledgments[i].employee_id = employee_id

\* SELECT 1 FROM acknowledgments WHERE employee_id = %s AND handbook_version = %s
CheckExistingAcknowledgment(employee_id, version) ==
    \E i \in 1..Len(acknowledgments) :
        /\ acknowledgments[i].employee_id = employee_id
        /\ acknowledgments[i].handbook_version = version

\* the UPDATE restricted to rows without a binding: a prior binding stays
UpdateEmployeeTelegramIfUnbound(employee_id, telegram_user_id, telegram_username) ==
    [employees EXCEPT ![employee_id] =
        IF @.telegram_user_id /= None THEN @
        ELSE [@ EXCEPT !.telegram_user_id = telegram_user_id,
                       !.telegram_username = telegram_username,
                       !.updated_at = @ + 1]]

\* the UPDATE also marking the row as awaiting review
UpdateEmployeeTelegramPending(employee_id, telegram_user_id, telegram_username) ==
    [employees EXCEPT ![employee_id] =
        [@ EXCEPT !.telegram_user_id = telegram_user_id,
                  !.telegram_username = telegram_username,
                  !.status = "pending",
                  !.updated_at = @ + 1]]

\* UPDATE employees SET ... WHERE id = %s, committed
UpdateEmployeeTelegram(employee_id, telegram_user_id, telegram_username) ==
    [employees EXCEPT ![employee_id] =
        [@ EXCEPT !.telegram_user_id = telegram_user_id,
                  !.telegram_username = telegram_username,
                  !.updated_at = @ + 1]]

\* the row INSERT INTO acknowledgments adds
AcknowledgmentRow(employee_id, version, ack_text, message) ==
    [employee_id |-> employee_id,
     handbook_version |-> version,
     ack_text |-> ack_text,
     telegram_chat_id |-> message.chat_id,
     telegram_message_id |-> message.message_id]

\* the INSERT violates the uniqueness constraint of the schema
UniqueViolation(employee_id, version) ==
    /\ unique_constraint
    /\ \E i \in 1..Len(acknowledgments) :
          /\ acknowledgments[i].employee_id = employee_id
          /\ acknowledgments[i].handbook_version = version

\* the INSERT as an upsert: a row of the same pair is replaced
InsertAcknowledgmentUpsert(employee_id, version, ack_text, message) ==
    LET row == AcknowledgmentRow(employee_id, version, ack_text, message)
        held == {i \in 1..Len(acknowledgments) :
                    /\ acknowledgments[i].employee_id = employee_id
                    /\ acknowledgments[i].handbook_version = version}
    IN  IF held = {} THEN Append(acknowledgments, row)
        ELSE [i \in 1..Len(acknowledgments) |->
                 IF i \in held THEN row ELSE acknowledgments[i]]

\* INSERT INTO acknowledgments ... RETURNING id, committed
InsertAcknowledgment(employee_id, version, ack_text, message) ==
    Append(acknowledgments, AcknowledgmentRow(employee_id, version, ack_text, message))

(***************************************************************************)
(* handle_message, one action per step of the coroutine.                   *)
(***************************************************************************)
Pending == "Pending"

StoreCallPcs == {"connect", "find", "similar", "check", "update", "insert"}
ReplyPcs == {"reply_not_found", "reply_already", "reply_recorded"}

InFlight == {m \in 1..Len(calls) : calls[m].pc /= "done"}

Reply(m, kind, name, version, suggestions) ==
    [message_id |-> m, kind |-> kind, name |-> name, version |-> version,
     suggestions |-> suggestions]

\* handle_message returns (or an exception leaves it): its locals are gone;
\* what stays on record is the message, the connection and the history
Returned(call, outcome, conn) ==
    [call EXCEPT !.pc = "done", !.full_name = <<>>, !.version = None,
                 !.employee = NoEmployee, !.similar = <<>>,
                 !.conn = conn, !.outcome = outcome]

\* the orders in which SELECT without ORDER BY may return the employees
RowOrders ==
    {o \in [EmpIds -> EmpIds] : \A e \in EmpIds : \E i \in EmpIds : o[i] = e}

\* A message arrives and handle_message runs up to the try block: the
\* no-text, chat-scope and pattern guards and the local assignments.
Deliver(update) ==
    LET message == [chat_id |-> update.chat_id, message_id |-> Len(calls) + 1,
                    text |-> update.text, from_user |-> update.from_user]
        match == AckPatternSearch(message.text)
        returned(outcome) ==
            [message |-> message, pc |-> "done", full_name |-> <<>>,
             version |-> None, employee |-> NoEmployee, similar |-> <<>>,
             conn |-> "unopened", raised |-> "no", wrote |-> {},
             outcome |-> outcome]
    IN  /\ Len(calls) < MaxMsgs
        /\ calls' = Append(calls,
              IF message.text.kind = "none" THEN returned("NoMatch")
              ELSE IF ~ChatAllowed(message.chat_id) THEN returned("ChatNotAllowed")
              ELSE IF ~match.matched THEN returned("NoMatch")
              ELSE [returned(Pending) EXCEPT !.pc = "connect",
                                             !.full_name = match.full_name,
                                             !.version = match.version])
        /\ UNCHANGED <<config, lookup, store, replies>>

\* conn = get_db_connection()
Connect(m) ==
    /\ calls[m].pc = "connect"
    /\ calls' = [calls EXCEPT ![m].pc = "find", ![m].conn = "open"]
    /\ UNCHANGED <<config, lookup, store, replies>>

\* employee = find_employee_by_name(conn, full_name); if not employee
FindEmployee(m) ==
    /\ calls[m].pc = "find"
    /\ LET found == FindEmployeeByName(calls[m].full_name)
       IN  IF found = {}
           THEN calls' = [calls EXCEPT ![m].pc = "similar"]
           ELSE \E employee \in found :
                    calls' = [calls EXCEPT ![m].pc = "check",
                                           ![m].employee = employee]
    /\ UNCHANGED <<config, lookup, store, replies>>

\* similar = find_similar_names(conn, full_name)
FindSimilar(m) ==
    /\ calls[m].pc = "similar"
    /\ \E order \in RowOrders :
         LET all_employees == [i \in EmpIds |->
                                  [id |-> employees[order[i]].id,
                                   full_name |-> employees[order[i]].full_name]]
         IN  calls' = [calls EXCEPT
                 ![m].pc = "reply_not_found",
                 ![m].similar = FindSimilarNames(all_employees,
                                                 calls[m].full_name, Threshold)]
    /\ UNCHANGED <<config, lookup, store, replies>>

\* the two name-not-found replies, then conn.close() and return
ReplyNotFound(m) ==
    /\ calls[m].pc = "reply_not_found"
    /\ LET similar == calls[m].similar
           names == [i \in 1..Len(similar) |-> similar[i].full_name]
       IN  replies' = replies \cup
              {IF similar /= <<>>
               THEN Reply(m, "suggestions", calls[m].full_name,
                          calls[m].version, names)
               ELSE Reply(m, "not_found", calls[m].full_name, None, <<>>)}
    /\ calls' = [calls EXCEPT ![m] = Returned(@, "NameNotFound", "closed")]
    /\ UNCHANGED <<config, lookup, store>>

\* if check_existing_acknowledgment(conn, employee_id, version)
CheckExisting(m) ==
    /\ calls[m].pc = "check"
    /\ calls' = [calls EXCEPT ![m].pc =
                    IF CheckExistingAcknowledgment(calls[m].employee.id,
                                                   calls[m].version)
                    THEN "reply_already" ELSE "update"]
    /\ UNCHANGED <<config, lookup, store, replies>>

\* the duplicate branch returning without a reply
ReplyAlreadySilent(m) ==
    /\ calls[m].pc = "reply_already"
    /\ calls' = [calls EXCEPT ![m] = Returned(@, "AlreadyAcknowledged", "closed")]
    /\ UNCHANGED <<config, lookup, store, replies>>

\* the already-acknowledged reply, then conn.close() and return
ReplyAlready(m) ==
    /\ calls[m].pc = "reply_already"
    /\ replies' = replies \cup
          {Reply(m, "already", calls[m].employee.full_name, calls[m].version, <<>>)}
    /\ calls' = [calls EXCEPT ![m] = Returned(@, "AlreadyAcknowledged", "closed")]
    /\ UNCHANGED <<config, lookup, store>>

\* update_employee_telegram(conn, employee_id, telegram_user_id, telegram_username)
UpdateEmployee(m) ==
    /\ calls[m].pc = "update"
    /\ employees' = UpdateEmployeeTelegram(
                        calls[m].employee.id,
                        ToString(calls[m].message.from_user.id),
                        UsernameOrEmpty(calls[m].message.from_user))
    /\ calls' = [calls EXCEPT ![m].pc = "insert",
                              ![m].wrote = @ \cup {"employees"}]
    /\ UNCHANGED <<config, lookup, acknowledgments, replies>>

\* insert_acknowledgment without its commit: conn.close() discards the row
InsertAckUncommitted(m) ==
    /\ calls[m].pc = "insert"
    /\ IF UniqueViolation(calls[m].employee.id, calls[m].version)
       THEN calls' = [calls EXCEPT ![m].pc = "except",
                                   ![m].raised = "unique_violation"]
       ELSE calls' = [calls EXCEPT ![m].pc = "reply_recorded",
                                   ![m].conn = "closed"]
    /\ UNCHANGED <<config, lookup, store, replies>>

\* insert_acknowledgment(conn, employee_id, version, message.text, message_data)
\* and, when it returns, conn.close().  Where the schema declares the
\* uniqueness constraint, the INSERT of a pair the table holds raises.
InsertAck(m) ==
    /\ calls[m].pc = "insert"
    /\ IF UniqueViolation(calls[m].employee.id, calls[m].version)
       THEN /\ calls' = [calls EXCEPT ![m].pc = "except",
                                      ![m].raised = "unique_violation"]
            /\ UNCHANGED acknowledgments
       ELSE /\ acknowledgments' = InsertAcknowledgment(
                                      calls[m].employee.id, calls[m].version,
                                      calls[m].message.text, calls[m].message)
            /\ calls' = [calls EXCEPT ![m].pc = "reply_recorded",
                                      ![m].conn = "closed",
                                      ![m].wrote = @ \cup {"acknowledgments"}]
    /\ UNCHANGED <<config, lookup, employees, replies>>

\* the confirmation reply after the insert
ReplyRecorded(m) ==
    /\ calls[m].pc = "reply_recorded"
    /\ replies' = replies \cup
          {Reply(m, "recorded", calls[m].employee.full_name, calls[m].version, <<>>)}
    /\ calls' = [calls EXCEPT ![m] = Returned(@, "Recorded", @.conn)]
    /\ UNCHANGED <<config, lookup, store>>

\* a store call raises: control passes to the except clause
StoreRaises(m) ==
    /\ calls[m].pc \in StoreCallPcs
    /\ calls' = [calls EXCEPT ![m].pc = "except", ![m].raised = "store"]
    /\ UNCHANGED <<config, lookup, store, replies>>

\* a reply inside the try block raises: control passes to the except clause
ReplyRaises(m) ==
    /\ calls[m].pc \in ReplyPcs
    /\ calls' = [calls EXCEPT ![m].pc = "except", ![m].raised = "reply"]
    /\ UNCHANGED <<config, lookup, store, replies>>

\* except Exception: the generic error reply
ReplyError(m) ==
    /\ calls[m].pc = "except"
    /\ replies' = replies \cup {Reply(m, "error", <<>>, None, <<>>)}
    /\ calls' = [calls EXCEPT ![m] = Returned(@, "InternalError", @.conn)]
    /\ UNCHANGED <<config, lookup, store>>

\* the reply of the except clause raises: the exception leaves handle_message
ErrorReplyRaises(m) ==
    /\ calls[m].pc = "except"
    /\ calls' = [calls EXCEPT ![m] = Returned(@, "Unhandled", @.conn)]
    /\ UNCHANGED <<config, lookup, store, replies>>

Arrival == \E update \in Inbox : Deliver(update)

Next ==
    \/ Arrival
    \/ \E m \in 1..Len(calls) : Connect(m)
    \/ \E m \in 1..Len(calls) : FindEmployee(m)
    \/ \E m \in 1..Len(calls) : FindSimilar(m)
    \/ \E m \in 1..Len(calls) : ReplyNotFound(m)
    \/ \E m \in 1..Len(calls) : CheckExisting(m)
    \/ \E m \in 1..Len(calls) : ReplyAlready(m)
    \/ \E m \in 1..Len(calls) : UpdateEmployee(m)
    \/ \E m \in 1..Len(calls) : InsertAck(m)
    \/ \E m \in 1..Len(calls) : ReplyRecorded(m)
    \/ \E m \in 1..Len(calls) : StoreRaises(m)
    \/ \E m \in 1..Len(calls) : ReplyRaises(m)
    \/ \E m \in 1..Len(calls) : ReplyError(m)
    \/ \E m \in 1..Len(calls) : ErrorReplyRaises(m)

Spec == Init /\ [][Next]_vars

\* Serial delivery: the transport hands over the next message only when the
\* handler of the previous one has returned.
SerialArrival == InFlight = {} /\ Arrival

NextSerial ==
    \/ SerialArrival
    \/ \E m \in 1..Len(calls) : Connect(m)
    \/ \E m \in 1..Len(calls) : FindEmployee(m)
    \/ \E m \in 1..Len(calls) : FindSimilar(m)
    \/ \E m \in 1..Len(calls) : ReplyNotFound(m)
    \/ \E m \in 1..Len(calls) : CheckExisting(m)
    \/ \E m \in 1..Len(calls) : ReplyAlready(m)
    \/ \E m \in 1..Len(calls) : UpdateEmployee(m)
    \/ \E m \in 1..Len(calls) : InsertAck(m)
    \/ \E m \in 1..Len(calls) : ReplyRecorded(m)
    \/ \E m \in 1..Len(calls) : StoreRaises(m)
    \/ \E m \in 1..Len(calls) : ReplyRaises(m)
    \/ \E m \in 1..Len(calls) : ReplyError(m)
    \/ \E m \in 1..Len(calls) : ErrorReplyRaises(m)

SpecSerial == Init /\ [][NextSerial]_vars

\* Concurrent delivery of acknowledgments in the allowed chat only: two
\* senders claiming employee 1 for the same version, and one mistyped name.
RaceInbox ==
    { Message(1, Ann, AckText(ClaimAlPo, "v1")),
      Message(1, Bob, AckText(ClaimAlPo, "v1")),
      Message(1, Bob, AckText(ClaimTypo, "v1")) }

RaceArrival == \E update \in RaceInbox : Deliver(update)

NextRace ==
    \/ RaceArrival
    \/ \E m \in 1..Len(calls) : Connect(m)
    \/ \E m \in 1..Len(calls) : FindEmployee(m)
    \/ \E m \in 1..Len(calls) : FindSimilar(m)
    \/ \E m \in 1..Len(calls) : ReplyNotFound(m)
    \/ \E m \in 1..Len(calls) : CheckExisting(m)
    \/ \E m \in 1..Len(calls) : ReplyAlready(m)
    \/ \E m \in 1..Len(calls) : UpdateEmployee(m)
    \/ \E m \in 1..Len(calls) : InsertAck(m)
    \/ \E m \in 1..Len(calls) : ReplyRecorded(m)
    \/ \E m \in 1..Len(calls) : StoreRaises(m)
    \/ \E m \in 1..Len(calls) : ReplyRaises(m)
    \/ \E m \in 1..Len(calls) : ReplyError(m)
    \/ \E m \in 1..Len(calls) : ErrorReplyRaises(m)

\* the chat restriction is configured and every message comes from that chat
InitRace == Init /\ ALLOWED_CHAT_ID = 1

SpecRace == InitRace /\ [][NextRace]_vars

(***************************************************************************)
(* Every call returns and no reply raises: concurrent delivery of messages *)
(* of the allowed chat, where a store call returns or raises, reply_text   *)
(* returns, and a handler that can take its next step eventually takes it  *)
(* (the event loop resumes a coroutine whose awaited call has finished).   *)
(***************************************************************************)
\* chatter, an acknowledgment (sent twice it is a duplicate) and a typo
LiveInbox ==
    { Message(1, Bob, Chatter),
      Message(1, Ann, AckText(ClaimAlPo, "v1")),
      Message(1, Bob, AckText(ClaimTypo, "v1")) }

LiveArrival == \E update \in LiveInbox : Deliver(update)

\* the next step of call m when replies do not raise
LiveStep(m) ==
    /\ m \in 1..Len(calls)
    /\ \/ Connect(m)
       \/ FindEmployee(m)
       \/ FindSimilar(m)
       \/ ReplyNotFound(m)
       \/ CheckExisting(m)
       \/ ReplyAlready(m)
       \/ UpdateEmployee(m)
       \/ InsertAck(m)
       \/ ReplyRecorded(m)
       \/ StoreRaises(m)
       \/ ReplyError(m)

NextLive ==
    \/ LiveArrival
    \/ \E m \in 1..Len(calls) : Connect(m)
    \/ \E m \in 1..Len(calls) : FindEmployee(m)
    \/ \E m \in 1..Len(calls) : FindSimilar(m)
    \/ \E m \in 1..Len(calls) : ReplyNotFound(m)
    \/ \E m \in 1..Len(calls) : CheckExisting(m)
    \/ \E m \in 1..Len(calls) : ReplyAlready(m)
    \/ \E m \in 1..Len(calls) : UpdateEmployee(m)
    \/ \E m \in 1..Len(calls) : InsertAck(m)
    \/ \E m \in 1..Len(calls) : ReplyRecorded(m)
    \/ \E m \in 1..Len(calls) : StoreRaises(m)
    \/ \E m \in 1..Len(calls) : ReplyError(m)

SpecLive ==
    /\ InitRace
    /\ [][NextLive]_vars
    /\ \A m \in 1..MaxMsgs : WF_vars(LiveStep(m))

(***************************************************************************)
(* find_similar_names on its own: applied once to any sequence of at most  *)
(* MaxRoster rows named from SimilarPool and to any claimed name of        *)
(* SimilarClaims, with the default threshold.                              *)
(***************************************************************************)
\* the results the SELECT may return: rows (id, full_name) in any order
SimilarRosters ==
    UNION {[1..n -> SimilarPool] : n \in 0..MaxRoster}

InitSimilar ==
    /\ ALLOWED_CHAT_ID = 0
    /\ unique_constraint = FALSE
    /\ employees = [e \in EmpIds |->
                       [id |-> e,
                        full_name |-> Roster[e],
                        status |-> EmployeeStatus,
                        telegram_user_id |-> None,
                        telegram_username |-> None,
                        updated_at |-> 0]]
    /\ acknowledgments = <<>>
    /\ replies = {}
    /\ calls = <<>>
    /\ \E names \in SimilarRosters, full_name \in SimilarClaims :
          lookup = [pc |-> "called",
                    all_employees |-> [i \in 1..Len(names) |->
                                          [id |-> i, full_name |-> names[i]]],
                    full_name |-> full_name,
                    matches |-> <<>>]

\* return matches[:3]
FindSimilarReturns ==
    /\ lookup.pc = "called"
    /\ lookup' = [lookup EXCEPT
                     !.pc = "returned",
                     !.matches = FindSimilarNames(lookup.all_employees,
                                                  lookup.full_name, Threshold)]
    /\ UNCHANGED <<config, store, replies, calls>>

NextSimilar == FindSimilarReturns

SpecSimilar == InitSimilar /\ [][NextSimilar]_vars

(***************************************************************************)
(* Vocabulary of the properties.                                           *)
(***************************************************************************)
Calls == 1..Len(calls)
Done(m) == calls[m].pc = "done"
FitsTemplate(m) == calls[m].message.text.kind = "ack"
InScope(m) == ALLOWED_CHAT_ID = 0 \/ calls[m].message.chat_id = ALLOWED_CHAT_ID
NothingRaised(m) == calls[m].raised = "no"
RepliesTo(m) == {r \in replies : r.message_id = m}
Rows == 1..Len(acknowledgments)
RowsFrom(m) == {i \in Rows : acknowledgments[i].telegram_message_id = m}
RowsFor(e, v) == {i \in Rows : /\ acknowledgments[i].employee_id = e
                               /\ acknowledgments[i].handbook_version = v}
\* the names messages carry (the empty name stands for a text without one)
MessageNames == {update.text.name : update \in Inbox}
\* the employees whose full name equals the name, case-insensitively
ExactHitsOf ==
    [name \in MessageNames |-> {e \in EmpIds : Lower(Roster[e]) = Lower(name)}]
ExactHits(name) == ExactHitsOf[name]
\* the employees whose combined score reaches the threshold
CandidatesOf ==
    [name \in MessageNames |->
        {e \in EmpIds : FracGE(FinalScore(name, Roster[e]), Threshold)}]
Candidates(name) == CandidatesOf[name]
\* the call returned at once, with no connection, no write and no reply
Ignored(m) ==
    /\ Done(m)
    /\ calls[m].conn = "unopened"
    /\ calls[m].wrote = {}
    /\ RepliesTo(m) = {}
    /\ RowsFrom(m) = {}

(***************************************************************************)
(* C1: the ledger never holds two rows with the same (employee id,         *)
(* handbook version), and no two messages for the same pair are both       *)
(* answered Recorded, whatever the interleaving of the invocations.        *)
(***************************************************************************)
C1_AtMostOncePerPair ==
    /\ \A i, j \in Rows :
          (/\ acknowledgments[i].employee_id = acknowledgments[j].employee_id
           /\ acknowledgments[i].handbook_version = acknowledgments[j].handbook_version)
          => i = j
    /\ \A m, n \in Calls :
          (/\ calls[m].outcome = "Recorded"
           /\ calls[n].outcome = "Recorded"
           /\ ExactHits(calls[m].message.text.name)
                 = ExactHits(calls[n].message.text.name)
           /\ calls[m].message.text.version = calls[n].message.text.version)
          => m = n

(***************************************************************************)
(* C2: under serial delivery, when the same acknowledgment text for an     *)
(* exactly named employee is processed twice and no call raises, the       *)
(* second message is answered AlreadyAcknowledged, writes to no table, and *)
(* the ledger holds exactly one row for the pair.                          *)
(***************************************************************************)
SameTextTwice(m, n) ==
    /\ m < n
    /\ calls[m].message.text = calls[n].message.text
    /\ FitsTemplate(m) /\ InScope(m) /\ InScope(n)
    /\ ExactHits(calls[m].message.text.name) /= {}
    /\ Done(m) /\ Done(n)
    /\ NothingRaised(m) /\ NothingRaised(n)

C2_SecondSendAlreadyAcknowledged ==
    \A m, n \in Calls :
        SameTextTwice(m, n) =>
            /\ calls[n].outcome = "AlreadyAcknowledged"
            /\ calls[n].wrote = {}
            /\ RowsFrom(n) = {}
            /\ \A e \in ExactHits(calls[n].message.text.name) :
                   Cardinality(RowsFor(e, calls[n].message.text.version)) = 1

C2_Witness ==
    \E m, n \in Calls :
        /\ SameTextTwice(m, n)
        /\ calls[m].outcome = "Recorded"
        /\ calls[n].outcome = "AlreadyAcknowledged"

(***************************************************************************)
(* C3: an in-scope template message whose claimed name equals an           *)
(* employee's full name case-insensitively, that employee having no        *)
(* acknowledgment of the version from another message, is answered         *)
(* Recorded when nothing raises: the ledger holds exactly one row from the *)
(* message, with the employee's id, the version, the chat id and the       *)
(* message id, and the one reply names the stored name and the version.    *)
(***************************************************************************)
RecordedCase(m, e) ==
    /\ Done(m) /\ FitsTemplate(m) /\ InScope(m) /\ NothingRaised(m)
    /\ e \in ExactHits(calls[m].message.text.name)
    /\ RowsFor(e, calls[m].message.text.version) \subseteq RowsFrom(m)

C3_ExactNameIsRecorded ==
    \A m \in Calls : \A e \in EmpIds :
        RecordedCase(m, e) =>
            /\ calls[m].outcome = "Recorded"
            /\ \E i \in Rows :
                  /\ RowsFrom(m) = {i}
                  /\ acknowledgments[i] =
                        [employee_id |-> e,
                         handbook_version |-> calls[m].message.text.version,
                         ack_text |-> calls[m].message.text,
                         telegram_chat_id |-> calls[m].message.chat_id,
                         telegram_message_id |-> m]
            /\ RepliesTo(m) =
                  {Reply(m, "recorded", Roster[e],
                         calls[m].message.text.version, <<>>)}

C3_Witness ==
    \E m \in Calls :
        /\ RecordedCase(m, 1)
        /\ calls[m].message.text.name /= Roster[1]
        /\ calls[m].outcome = "Recorded"

(***************************************************************************)
(* C4: a message with no text, or whose text does not fit the template,    *)
(* returns at once: no connection is opened, no table is written and no    *)
(* reply is sent.                                                          *)
(***************************************************************************)
C4_NoMatchNoEffect ==
    \A m \in Calls :
        calls[m].message.text.kind /= "ack" =>
            Ignored(m) /\ calls[m].outcome = "NoMatch"

C4_Witness ==
    \E m, n \in Calls :
        /\ calls[m].message.text.kind = "chatter"
        /\ calls[n].message.text.kind = "none"
        /\ Ignored(m) /\ Ignored(n)

(***************************************************************************)
(* C5: with ALLOWED_CHAT_ID non-zero, a message from another chat returns  *)
(* at once with no reply and no write, whatever its text; with             *)
(* ALLOWED_CHAT_ID zero no message is rejected for its chat id.            *)
(***************************************************************************)
C5_ChatScope ==
    \A m \in Calls :
        /\ (ALLOWED_CHAT_ID /= 0 /\ calls[m].message.chat_id /= ALLOWED_CHAT_ID)
              => Ignored(m) /\ calls[m].outcome \in {"ChatNotAllowed", "NoMatch"}
        /\ calls[m].outcome = "ChatNotAllowed"
              => ALLOWED_CHAT_ID /= 0 /\ calls[m].message.chat_id /= ALLOWED_CHAT_ID
        /\ (ALLOWED_CHAT_ID = 0 /\ FitsTemplate(m))
              => calls[m].outcome /= "NoMatch"

C5_Witness ==
    \E m \in Calls :
        /\ ALLOWED_CHAT_ID /= 0
        /\ calls[m].message.chat_id /= ALLOWED_CHAT_ID
        /\ FitsTemplate(m)
        /\ calls[m].outcome = "ChatNotAllowed"

(***************************************************************************)
(* C6: a template message whose claimed name is no employee's full name    *)
(* writes to no table; when nothing raises it is answered NameNotFound,    *)
(* with the suggestion prompt when some employee scores at least the       *)
(* threshold and with the generic prompt otherwise.                        *)
(***************************************************************************)
NoExactHit(m) ==
    /\ FitsTemplate(m) /\ InScope(m)
    /\ ExactHits(calls[m].message.text.name) = {}

C6_NameNotFound ==
    \A m \in Calls :
        NoExactHit(m) =>
            /\ calls[m].wrote = {}
            /\ RowsFrom(m) = {}
            /\ (Done(m) /\ NothingRaised(m)) =>
                  /\ calls[m].outcome = "NameNotFound"
                  /\ \E r \in replies :
                        /\ RepliesTo(m) = {r}
                        /\ r.name = calls[m].message.text.name
                        /\ IF Candidates(calls[m].message.text.name) /= {}
                           THEN /\ r.kind = "suggestions"
                                /\ r.suggestions /= <<>>
                                /\ \A i \in 1..Len(r.suggestions) :
                                      \E e \in Candidates(calls[m].message.text.name) :
                                          r.suggestions[i] = Roster[e]
                           ELSE r.kind = "not_found" /\ r.suggestions = <<>>

C6_Witness ==
    \E m, n \in Calls :
        /\ NoExactHit(m) /\ NoExactHit(n)
        /\ \E r \in RepliesTo(m) : r.kind = "suggestions"
        /\ \E r \in RepliesTo(n) : r.kind = "not_found"

(***************************************************************************)
(* C7: a message whose insert raised the uniqueness violation is answered  *)
(* with the already-acknowledged confirmation, never the generic error.    *)
(***************************************************************************)
C7_ConflictIsAlreadyAcknowledged ==
    \A m \in Calls :
        calls[m].raised = "unique_violation" =>
            \A r \in RepliesTo(m) : r.kind = "already"

(***************************************************************************)
(* C8: a message that ends InternalError because a store call raised has   *)
(* written to no table.                                                    *)
(***************************************************************************)
C8_NoPartialState ==
    \A m \in Calls :
        (/\ calls[m].outcome = "InternalError"
         /\ calls[m].raised \in {"store", "unique_violation"})
        => calls[m].wrote = {}

(***************************************************************************)
(* C9: when an invocation has ended, the connection it opened is closed.   *)
(***************************************************************************)
C9_ConnectionClosed ==
    \A m \in Calls : Done(m) => calls[m].conn /= "open"

(***************************************************************************)
(* C10: no two employee rows carry the same channel-user identifier.       *)
(***************************************************************************)
C10_OneEmployeePerChannelUser ==
    \A e, f \in EmpIds :
        (e /= f /\ employees[e].telegram_user_id /= None)
        => employees[e].telegram_user_id /= employees[f].telegram_user_id

(***************************************************************************)
(* C11: under serial delivery, a message whose claimed name is an exact    *)
(* hit, for an employee without an acknowledgment of the version from an   *)
(* earlier message, runs the binding update when nothing raises; once the  *)
(* latest message has run the update, the employee row carries its         *)
(* sender's channel-user identifier and username, whatever it carried      *)
(* before; a message answered AlreadyAcknowledged writes no binding.       *)
(***************************************************************************)
BoundToSender(m, e) ==
    /\ employees[e].telegram_user_id = ToString(calls[m].message.from_user.id)
    /\ employees[e].telegram_username = UsernameOrEmpty(calls[m].message.from_user)

ExactHitCase(m) ==
    /\ Done(m) /\ FitsTemplate(m) /\ InScope(m) /\ NothingRaised(m)
    /\ ExactHits(calls[m].message.text.name) /= {}

C11_BindsWhenNotYetAcknowledged ==
    \A m \in Calls :
        /\ (m = Len(calls) /\ "employees" \in calls[m].wrote)
              => \A e \in ExactHits(calls[m].message.text.name) : BoundToSender(m, e)
        /\ ExactHitCase(m) =>
              \A e \in ExactHits(calls[m].message.text.name) :
                  IF RowsFor(e, calls[m].message.text.version) \subseteq RowsFrom(m)
                  THEN "employees" \in calls[m].wrote
                  ELSE calls[m].outcome = "AlreadyAcknowledged" /\ calls[m].wrote = {}

\* the second message overwrote the binding the first one wrote
C11_Witness ==
    /\ Len(calls) = 2
    /\ ExactHitCase(1) /\ ExactHitCase(2)
    /\ calls[1].message.from_user /= calls[2].message.from_user
    /\ calls[1].message.text.name = calls[2].message.text.name
    /\ "employees" \in calls[1].wrote
    /\ "employees" \in calls[2].wrote
    /\ \A e \in ExactHits(calls[2].message.text.name) : BoundToSender(2, e)

\* C11 as stated: after any message with an exact hit the employee row
\* carries the sender's channel-user identifier
C11_AlwaysBinds ==
    \A m \in Calls :
        (m = Len(calls) /\ ExactHitCase(m))
        => \A e \in ExactHits(calls[m].message.text.name) : BoundToSender(m, e)

(***************************************************************************)
(* C12: the acknowledgments ledger is append-only: every step leaves the   *)
(* rows it found where they were and as they were, adding at most one row  *)
(* at the end, and no message has more than one row of its own.            *)
(***************************************************************************)
AppendOnlyStep ==
    /\ Len(acknowledgments') \in {Len(acknowledgments), Len(acknowledgments) + 1}
    /\ \A i \in 1..Len(acknowledgments) : acknowledgments'[i] = acknowledgments[i]

C12_LedgerAppendOnly ==
    /\ [](\A m \in Calls : Cardinality(RowsFrom(m)) <= 1)
    /\ [][AppendOnlyStep]_vars

\* a second row was appended behind the first, which is still in place
C12_Witness ==
    /\ Len(acknowledgments) = 2
    /\ acknowledgments[1].telegram_message_id /= acknowledgments[2].telegram_message_id
    /\ \A m \in Calls : "acknowledgments" \in calls[m].wrote => RowsFrom(m) /= {}

(***************************************************************************)
(* C13: find_similar_names returns exactly the rows whose combined score   *)
(* is at least the threshold 0.6, in non-increasing order of score and cut *)
(* to the first 3, so no row left out outscores a row returned; the bonus  *)
(* in a combined score is 0 or 0.15.                                       *)
(***************************************************************************)
\* the combined score of every claimed name against every pool name
ScoreOf ==
    [n \in SimilarClaims |-> [e \in SimilarPool |-> FinalScore(n, e)]]

\* the sequence ratio of every claimed name against every pool name
RatioOf ==
    [n \in SimilarClaims |-> [e \in SimilarPool |-> Ratio(Lower(n), Lower(e))]]

FracEq(a, b) == a[1] * b[2] = b[1] * a[2]

LookupScore(i) == ScoreOf[lookup.full_name][lookup.all_employees[i].full_name]

\* the rows of the lookup at or above the threshold
LookupCandidates ==
    {i \in 1..Len(lookup.all_employees) : FracGE(LookupScore(i), Threshold)}

C13_TopThreeAtOrAboveThreshold ==
    lookup.pc = "returned" =>
        LET matches == lookup.matches
            returned == {matches[k].id : k \in 1..Len(matches)}
        IN  /\ Len(matches) = IF Cardinality(LookupCandidates) < 3
                              THEN Cardinality(LookupCandidates) ELSE 3
            /\ Cardinality(returned) = Len(matches)
            /\ returned \subseteq LookupCandidates
            /\ \A k \in 1..Len(matches) :
                  /\ matches[k].full_name
                        = lookup.all_employees[matches[k].id].full_name
                  /\ matches[k].score = LookupScore(matches[k].id)
            /\ \A k \in 1..(Len(matches) - 1) :
                  FracGE(matches[k].score, matches[k + 1].score)
            /\ \A i \in LookupCandidates \ returned, k \in 1..Len(matches) :
                  FracGE(matches[k].score, LookupScore(i))
            /\ \A i \in 1..Len(lookup.all_employees) :
                  LET ratio == RatioOf[lookup.full_name]
                                      [lookup.all_employees[i].full_name]
                  IN  \/ FracEq(LookupScore(i), ratio)
                      \/ FracEq(LookupScore(i), FracAdd(ratio, <<15, 100>>))

\* four rows reach the threshold, one of them without a bonus and one with
\* two matching token pairs, and three are returned
C13_Witness ==
    /\ lookup.pc = "returned"
    /\ Cardinality(LookupCandidates) = 4
    /\ Len(lookup.matches) = 3
    /\ lookup.full_name = ClaimAlPo
    /\ \E i, j \in LookupCandidates :
          /\ lookup.all_employees[i].full_name = NameAlpo
          /\ lookup.all_employees[j].full_name = NameAlPo

(***************************************************************************)
(* C14: the Recorded confirmation is sent only after the binding update    *)
(* and the insert have committed: in every state where a Recorded reply    *)
(* to a message exists, the ledger holds a row from that message for the   *)
(* employee its name resolves to and the version it names.                 *)
(***************************************************************************)
C14_RecordedReplyHasRow ==
    \A r \in replies :
        r.kind = "recorded" =>
            LET m == r.message_id
            IN  /\ calls[m].wrote = {"employees", "acknowledgments"}
                /\ ExactHits(calls[m].message.text.name) /= {}
                /\ \A e \in ExactHits(calls[m].message.text.name) :
                      \E i \in RowsFrom(m) :
                          /\ acknowledgments[i].employee_id = e
                          /\ acknowledgments[i].handbook_version
                                = calls[m].message.text.version
                          /\ r.version = calls[m].message.text.version
                          /\ r.name = employees[e].full_name

\* a Recorded reply has been sent
C14_Witness ==
    \E r \in replies :
        /\ r.kind = "recorded"
        /\ RowsFrom(r.message_id) /= {}
        /\ calls[r.message_id].outcome = "Recorded"

(***************************************************************************)
(* C15: the idempotency check is keyed on the resolved employee and the    *)
(* version, not on the sender: under serial delivery with no call raising, *)
(* a message whose name resolves to employee e is answered                 *)
(* AlreadyAcknowledged exactly when an earlier message, from whichever     *)
(* channel user, left a row for (e, version), and is Recorded otherwise.   *)
(***************************************************************************)
EarlierRowsFor(m, e, v) ==
    {i \in RowsFor(e, v) : acknowledgments[i].telegram_message_id < m}

C15_CheckKeyedOnEmployeeAndVersion ==
    \A m \in Calls :
        ExactHitCase(m) =>
            \A e \in ExactHits(calls[m].message.text.name) :
                /\ calls[m].outcome \in {"AlreadyAcknowledged", "Recorded"}
                /\ calls[m].outcome = "AlreadyAcknowledged"
                      <=> EarlierRowsFor(m, e, calls[m].message.text.version) /= {}

\* a second channel user claiming the name of an acknowledged pair
C15_Witness ==
    /\ Len(calls) = 2
    /\ ExactHitCase(1) /\ ExactHitCase(2)
    /\ calls[1].message.from_user /= calls[2].message.from_user
    /\ calls[1].message.text = calls[2].message.text
    /\ calls[1].outcome = "Recorded"
    /\ calls[2].outcome = "AlreadyAcknowledged"

(***************************************************************************)
(* C16: no sequence of messages creates or deletes an employee row or      *)
(* changes an employee's id, full name or status: the table holds the      *)
(* roster's rows, each with the id, name and status it was provisioned     *)
(* with, whatever its channel binding and update timestamp have become.    *)
(***************************************************************************)
C16_EmployeeFrame ==
    /\ DOMAIN employees = EmpIds
    /\ \A e \in EmpIds :
          /\ DOMAIN employees[e] = {"id", "full_name", "status", "telegram_user_id",
                                    "telegram_username", "updated_at"}
          /\ employees[e].id = e
          /\ employees[e].full_name = Roster[e]
          /\ employees[e].status = EmployeeStatus

\* two messages have each written a binding, to the same or to two rows
C16_Witness ==
    /\ Len(calls) = 2
    /\ \A m \in Calls : Done(m) /\ "employees" \in calls[m].wrote
    /\ \E e \in EmpIds : employees[e].updated_at > 0
                         /\ employees[e].telegram_user_id /= None

(***************************************************************************)
(* C17: a message whose acknowledgment row was inserted is never answered  *)
(* with the generic error reply, also when the confirmation reply raises   *)
(* after the insert.                                                       *)
(***************************************************************************)
C17_NoErrorReplyAfterInsert ==
    \A m \in Calls :
        RowsFrom(m) /= {} => \A r \in RepliesTo(m) : r.kind /= "error"

(***************************************************************************)
(* C18: when every store call and every reply call returns and no reply    *)
(* raises, every in-scope message that fits the template eventually has    *)
(* exactly one reply, which is a name-not-found prompt, the                *)
(* already-acknowledged confirmation, the recorded confirmation or the     *)
(* generic error; no message ever has more than one reply.                 *)
(***************************************************************************)
ReplyKinds == {"suggestions", "not_found", "already", "recorded", "error"}

AtMostOneReply ==
    \A m \in Calls :
        /\ Cardinality(RepliesTo(m)) <= 1
        /\ \A r \in RepliesTo(m) : r.kind \in ReplyKinds

Answered(m) == Done(m) /\ Cardinality(RepliesTo(m)) = 1

C18_EventuallyOneReply ==
    /\ []AtMostOneReply
    /\ \A m \in 1..MaxMsgs :
          (m \in Calls /\ FitsTemplate(m) /\ InScope(m)) ~> (m \in Calls /\ Answered(m))

\* every message delivered has been answered, one of them with the generic
\* error after a store call raised
C18_Witness ==
    /\ Len(calls) = MaxMsgs
    /\ \A m \in Calls : FitsTemplate(m) /\ InScope(m) /\ Answered(m)
    /\ \E m \in Calls : calls[m].raised = "store"
    /\ \E r \in replies : r.kind = "error"

====
